---- MODULE Spec2Model ----
(***************************************************************************)
(* Model of the ATtiny watchdog firmware (two-stage watchdog with an I2C   *)
(* register file) and of the refresh schedule the Linux driver documents.  *)
(*                                                                         *)
(* State: the four firmware globals, the PORTA output latch and the        *)
(* position inside timer_handler.                                          *)
(*                                                                         *)
(* The handler-level specifications take each bus callback as one step and *)
(* let it run only while timer_handler is not executing.  SpecIrq is the   *)
(* interrupt-level view that justifies this: there i2c_receive_event is a  *)
(* sequence of instructions which the timer interrupt may preempt wherever *)
(* interrupts are enabled, and time is counted in slots of 50 ms.          *)
(*                                                                         *)
(* The remaining variables are observers: they record what the last        *)
(* handler did and how long the host has been silent, and never feed back  *)
(* into the firmware state.                                                *)
(***************************************************************************)
EXTENDS Integers, Sequences, FiniteSets, TLC

\* ------------------------------------------------------------ constants
FW_VERSION == 16
PORTA_PIN_RESET == 8
PORTA_PIN_ALERT == 64
PORTA_PIN_POWERCYCLE == 128
REG_VERSION == 0
REG_CONFIG == 1
REG_WDT == 2
CONFIG_ENABLE_RESET == 1
CONFIG_ENABLE_POWERCYCLE == 2
CONFIG_ENABLE_ALERT == 4
WDT_TICK_INTERVAL_MSEC == 250
\* The argument of both delay() calls of timer_handler; also the length of
\* one time slot of the interrupt-level view.
DELAY_MSEC == 50
\* Number of values of a uint8_t.
UINT8 == 256
\* The reload value the Linux driver writes.
DRIVER_RELOAD == 255

\* ------------------------------------------------------------ bounds
\* Spec: the host refreshes at least every MaxGap ticks.
MaxGap == 3
\* Ticks that would take wdt_expirations past MaxExp are not explored.
MaxExp == 3
\* SpecLong: ticks since the last refresh are counted up to LongCap.
LongCap == 260
\* SpecCfg: the host refreshes at least every CfgGap ticks.
CfgGap == 1
\* Expiration events since the last refresh are counted up to NexpCap.
NexpCap == 3
\* SpecTimeout: ticks after the one reload are explored up to TimeoutCap.
TimeoutCap == 513
\* SpecSilent: ticks after power-on are explored up to SilentCap.
SilentCap == 1536

VARIABLES
    wdt_counter,        \* uint8_t wdt_counter
    wdt_expirations,    \* uint8_t wdt_expirations
    register_pointer,   \* uint8_t register_pointer
    config_reg,         \* uint8_t config_reg
    PORTA_OUT,          \* set of pin masks driven high
    pc,                 \* position inside timer_handler
    lastOp,             \* observer: handler that ran last
    tx,                 \* observer: byte sent by the last read request
    lastWr,             \* observer: last bus write, its kind and applied data
    tk,                 \* observer: what the last tick handler did
    gap,                \* observer: ticks since the last refresh / power-on
    nexp,               \* observer: expirations since the last refresh
    refreshed,          \* observer: a refresh write happened since power-on
    reload,             \* observer: last refresh, value written and count found
    alertEnRun,         \* observer: enable-alert set ever since last refresh
    txn,                \* observer: bus transaction phase
    rx,                 \* observer: bytes of the write the last handler took
    sreg_i,             \* global interrupt enable as cli() and sei() leave it
    bus_pc,             \* position inside i2c_receive_event
    wire,               \* bytes Wire holds for the i2c_receive_event in progress
    tick_flag,          \* timer interrupt raised and not yet taken
    slot,               \* 50 ms slots since the timer last raised its interrupt
    held,               \* slots the delay(50) in progress has waited
    bus_elapsed,        \* a slot boundary fell inside the bus handler in progress
    lost,               \* observer: the timer raised while tick_flag was still set
    snap,               \* observer: firmware state when the bus handler was entered
    nested              \* observer: tick handlers run inside the bus handler

fw == <<wdt_counter, wdt_expirations, register_pointer, config_reg, PORTA_OUT, pc>>
obs == <<lastOp, tx, lastWr, tk, gap, nexp, refreshed, reload, alertEnRun, txn, rx>>
vars == <<wdt_counter, wdt_expirations, register_pointer, config_reg, PORTA_OUT,
          pc, lastOp, tx, lastWr, tk, gap, nexp, refreshed, reload, alertEnRun, txn,
          rx, sreg_i, bus_pc, wire, tick_flag, slot, held, bus_elapsed, lost, snap,
          nested>>
\* The variables of the interrupt-level view; the handler-level actions
\* leave them alone.
irq == <<sreg_i, bus_pc, wire, tick_flag, slot, held, bus_elapsed, lost, snap, nested>>

\* ------------------------------------------------------------ helpers
\* config_reg & mask, for a one-bit mask.
HasFlag(reg, mask) == (reg \div mask) % 2 = 1

Min(a, b) == IF a < b THEN a ELSE b

\* Mutant: a countdown that stops at 0 instead of wrapping.
Dec8_saturating(c) == IF c = 0 THEN 0 ELSE c - 1

\* --wdt_counter on a uint8_t.
Dec8(c) == (c + UINT8 - 1) % UINT8

\* Mutant: an expiration count that stops at 255 instead of wrapping.
Inc8_saturating(e) == IF e = UINT8 - 1 THEN e ELSE e + 1

\* wdt_expirations++ on a uint8_t.
Inc8(e) == (e + 1) % UINT8

\* Mutant: the release clears the alert pin together with the pulse pin.
deassert_powercycle_all(out) == out \ {PORTA_PIN_POWERCYCLE, PORTA_PIN_ALERT}

\* Mutant: deassert_reset() that leaves the pin driven.
deassert_reset_noop(out) == out

assert_reset(out) == out \cup {PORTA_PIN_RESET}
deassert_reset(out) == out \ {PORTA_PIN_RESET}
assert_powercycle(out) == out \cup {PORTA_PIN_POWERCYCLE}
deassert_powercycle(out) == out \ {PORTA_PIN_POWERCYCLE}
assert_alert(out) == out \cup {PORTA_PIN_ALERT}
deassert_alert(out) == out \ {PORTA_PIN_ALERT}

NoTx == -1
NoSnap == [c |-> 0, e |-> 0, rp |-> 0, cfg |-> 0, out |-> {}]
NoTick == [expired |-> FALSE, count |-> 0, rst |-> FALSE, pwr |-> FALSE]

\* ------------------------------------------------------------ power-on
Init ==
    /\ wdt_counter = UINT8 - 1
    /\ wdt_expirations = 0
    /\ register_pointer = 0
    /\ config_reg = CONFIG_ENABLE_ALERT + CONFIG_ENABLE_POWERCYCLE
    /\ PORTA_OUT = {}
    /\ pc = "idle"
    /\ lastOp = "none"
    /\ tx = NoTx
    /\ lastWr = [kind |-> "none", data |-> 0]
    /\ tk = NoTick
    /\ gap = 0
    /\ nexp = 0
    /\ refreshed = FALSE
    /\ reload = [v |-> UINT8 - 1, e0 |-> 0]
    /\ alertEnRun = TRUE
    /\ txn = "closed"
    /\ rx = <<>>
    /\ sreg_i = TRUE
    /\ bus_pc = "idle"
    /\ wire = <<>>
    /\ tick_flag = FALSE
    /\ slot = 0
    /\ held = 0
    /\ bus_elapsed = FALSE
    /\ lost = FALSE
    /\ snap = NoSnap
    /\ nested = 0

\* ------------------------------------------------------------ bus write
\* switch(register_pointer) of i2c_receive_event, one operator per variable
\* the cases assign.
\* Mutant: every address from REG_WDT up reloads the countdown.
ApplyCounter_from_wdt(rp, data, c) == IF rp >= REG_WDT THEN data ELSE c

ApplyCounter(rp, data, c) == IF rp = REG_WDT THEN data ELSE c

\* Mutant: only the three defined bits of CONFIG are stored.
ApplyConfig_masked(rp, data, cfg) == IF rp = REG_CONFIG THEN data % 8 ELSE cfg

ApplyConfig(rp, data, cfg) == IF rp = REG_CONFIG THEN data ELSE cfg

\* Mutant: a CONFIG write takes the alert down as a refresh does.
ApplyOut_any_register(rp, out) ==
    IF rp \in {REG_WDT, REG_CONFIG} THEN deassert_alert(out) ELSE out

ApplyOut(rp, out) == IF rp = REG_WDT THEN deassert_alert(out) ELSE out

\* The case REG_WDT leaves wdt_expirations as it is.
ApplyExpirations(rp, e) == e

\* Mutant: the loop that drains Wire keeps the byte it read last.
FirstData_last(bytes) == bytes[Len(bytes)]

\* uint8_t data = Wire.read(); the bytes after it are read and dropped.
FirstData(bytes) == bytes[2]

WriteKind(n, rp) ==
    IF n < 2 THEN "ptr"
    ELSE IF rp = REG_WDT THEN "wdt"
    ELSE IF rp = REG_CONFIG THEN "cfg"
    ELSE "ign"

\* The firmware side of i2c_receive_event: bytes are the bytes Wire holds,
\* address first.
i2c_receive_fw(bytes) ==
    /\ pc = "idle"
    /\ LET n == Len(bytes)
           rp == IF n > 0 THEN bytes[1] ELSE register_pointer
           applied == n > 1
           data == IF applied THEN FirstData(bytes) ELSE 0
       IN  /\ register_pointer' = rp
           /\ wdt_counter' = IF applied THEN ApplyCounter(rp, data, wdt_counter)
                             ELSE wdt_counter
           /\ config_reg' = IF applied THEN ApplyConfig(rp, data, config_reg)
                            ELSE config_reg
           /\ PORTA_OUT' = IF applied THEN ApplyOut(rp, PORTA_OUT) ELSE PORTA_OUT
           /\ wdt_expirations' = IF applied THEN ApplyExpirations(rp, wdt_expirations)
                                 ELSE wdt_expirations
    /\ pc' = pc

\* i2c_receive_event with its observers; stop tells whether the host ended
\* the transaction (TRUE) or goes on to read with a repeated start (FALSE).
i2c_receive_event(bytes, stop) ==
    /\ i2c_receive_fw(bytes)
    /\ LET n == Len(bytes)
           rp == register_pointer'
           applied == n > 1
           data == IF applied THEN FirstData(bytes) ELSE 0
           isRefresh == applied /\ rp = REG_WDT
       IN  /\ lastWr' = [kind |-> WriteKind(n, rp),
                         data |-> IF applied /\ rp \in {REG_WDT, REG_CONFIG}
                                  THEN data ELSE 0]
           /\ gap' = IF isRefresh THEN 0 ELSE gap
           /\ nexp' = IF isRefresh THEN 0 ELSE nexp
           /\ refreshed' = (refreshed \/ isRefresh)
           /\ reload' = IF isRefresh THEN [v |-> data, e0 |-> wdt_expirations]
                        ELSE reload
           /\ alertEnRun' = IF isRefresh THEN HasFlag(config_reg, CONFIG_ENABLE_ALERT)
                            ELSE alertEnRun /\ HasFlag(config_reg', CONFIG_ENABLE_ALERT)
    /\ lastOp' = "write"
    /\ tx' = NoTx
    /\ tk' = NoTick
    /\ txn' = IF stop THEN "closed" ELSE "open"
    /\ rx' = bytes

\* ------------------------------------------------------------ bus read
\* Mutant: the VERSION case is missing, address 0 falls to the default.
RegRead_noversion(rp, cfg, c) ==
    IF rp = REG_CONFIG THEN cfg
    ELSE IF rp = REG_WDT THEN c
    ELSE 0

\* switch(register_pointer) of i2c_request_event.
RegRead(rp, cfg, c) ==
    IF rp = REG_VERSION THEN FW_VERSION
    ELSE IF rp = REG_CONFIG THEN cfg
    ELSE IF rp = REG_WDT THEN c
    ELSE 0

i2c_request_event ==
    /\ pc = "idle"
    /\ tx' = RegRead(register_pointer, config_reg, wdt_counter)
    /\ lastOp' = "read"
    /\ tk' = NoTick
    /\ txn' = IF txn = "open" THEN "primed_read" ELSE "bare_read"
    /\ rx' = <<>>
    /\ UNCHANGED <<fw, lastWr, gap, nexp, refreshed, reload, alertEnRun>>

\* ------------------------------------------------------------ tick
\* Mutant: the alert is raised without looking at CONFIG_ENABLE_ALERT.
FirstStage_unconditional(cfg, out) == assert_alert(out)

\* First-stage action of timer_handler (wdt_expirations == 1).
FirstStage(cfg, out) ==
    IF HasFlag(cfg, CONFIG_ENABLE_ALERT) THEN assert_alert(out) ELSE out

\* timer_handler up to the end of the first-stage branch, or up to the
\* else branch.  limit and cap bound the observer gap, ecap bounds
\* wdt_expirations; none of them is read by the firmware.
timer_handler_enter(limit, cap, ecap) ==
    /\ pc = "idle"
    /\ gap < limit
    /\ (wdt_counter = 1 => wdt_expirations < ecap)
    /\ LET c == Dec8(wdt_counter)
           e == Inc8(wdt_expirations)
       IN  /\ wdt_counter' = c
           /\ IF c = 0
              THEN /\ wdt_expirations' = e
                   /\ IF e = 1
                      THEN /\ PORTA_OUT' = FirstStage(config_reg, PORTA_OUT)
                           /\ pc' = "idle"
                      ELSE /\ PORTA_OUT' = PORTA_OUT
                           /\ pc' = "chk_reset"
              ELSE UNCHANGED <<wdt_expirations, PORTA_OUT, pc>>
           /\ tk' = [expired |-> (c = 0), count |-> IF c = 0 THEN e ELSE 0,
                    rst |-> FALSE, pwr |-> FALSE]
           /\ nexp' = IF c = 0 THEN Min(nexp + 1, NexpCap) ELSE nexp
    /\ gap' = Min(gap + 1, cap)
    /\ lastOp' = "tick"
    /\ tx' = NoTx
    /\ rx' = <<>>
    /\ UNCHANGED <<register_pointer, config_reg, lastWr, refreshed, reload, alertEnRun, txn>>

\* Mutant: the reset pulse fires without looking at CONFIG_ENABLE_RESET.
reset_assert_unconditional ==
    /\ pc = "chk_reset"
    /\ PORTA_OUT' = assert_reset(PORTA_OUT)
    /\ tk' = [tk EXCEPT !.rst = TRUE]
    /\ pc' = "reset_hold"
    /\ UNCHANGED <<wdt_counter, wdt_expirations, register_pointer, config_reg>>
    /\ UNCHANGED <<lastOp, tx, lastWr, gap, nexp, refreshed, reload, alertEnRun, txn, rx>>

\* if(config_reg & CONFIG_ENABLE_RESET) { assert_reset(); delay(50);
reset_assert ==
    /\ pc = "chk_reset"
    /\ IF HasFlag(config_reg, CONFIG_ENABLE_RESET)
       THEN /\ PORTA_OUT' = assert_reset(PORTA_OUT)
            /\ tk' = [tk EXCEPT !.rst = TRUE]
            /\ pc' = "reset_hold"
       ELSE /\ pc' = "chk_powercycle"
            /\ UNCHANGED <<PORTA_OUT, tk>>
    /\ UNCHANGED <<wdt_counter, wdt_expirations, register_pointer, config_reg>>
    /\ UNCHANGED <<lastOp, tx, lastWr, gap, nexp, refreshed, reload, alertEnRun, txn, rx>>

\* deassert_reset(); wdt_expirations = 0; }
reset_release ==
    /\ pc = "reset_hold"
    /\ PORTA_OUT' = deassert_reset(PORTA_OUT)
    /\ wdt_expirations' = 0
    /\ pc' = "chk_powercycle"
    /\ UNCHANGED <<wdt_counter, register_pointer, config_reg>>
    /\ UNCHANGED obs

\* Mutant: the power-cycle branch is an else-if of the reset branch.
powercycle_assert_elseif ==
    /\ pc = "chk_powercycle"
    /\ IF HasFlag(config_reg, CONFIG_ENABLE_POWERCYCLE) /\ ~tk.rst
       THEN /\ PORTA_OUT' = assert_powercycle(PORTA_OUT)
            /\ tk' = [tk EXCEPT !.pwr = TRUE]
            /\ pc' = "powercycle_hold"
       ELSE /\ pc' = "idle"
            /\ UNCHANGED <<PORTA_OUT, tk>>
    /\ UNCHANGED <<wdt_counter, wdt_expirations, register_pointer, config_reg>>
    /\ UNCHANGED <<lastOp, tx, lastWr, gap, nexp, refreshed, reload, alertEnRun, txn, rx>>

\* if(config_reg & CONFIG_ENABLE_POWERCYCLE) { assert_powercycle(); delay(50);
powercycle_assert ==
    /\ pc = "chk_powercycle"
    /\ IF HasFlag(config_reg, CONFIG_ENABLE_POWERCYCLE)
       THEN /\ PORTA_OUT' = assert_powercycle(PORTA_OUT)
            /\ tk' = [tk EXCEPT !.pwr = TRUE]
            /\ pc' = "powercycle_hold"
       ELSE /\ pc' = "idle"
            /\ UNCHANGED <<PORTA_OUT, tk>>
    /\ UNCHANGED <<wdt_counter, wdt_expirations, register_pointer, config_reg>>
    /\ UNCHANGED <<lastOp, tx, lastWr, gap, nexp, refreshed, reload, alertEnRun, txn, rx>>

\* Mutant: the power-cycle branch does not clear wdt_expirations.
powercycle_release_keeps_count ==
    /\ pc = "powercycle_hold"
    /\ PORTA_OUT' = deassert_powercycle(PORTA_OUT)
    /\ pc' = "idle"
    /\ UNCHANGED <<wdt_counter, wdt_expirations, register_pointer, config_reg>>
    /\ UNCHANGED obs

\* deassert_powercycle(); wdt_expirations = 0; } and the handler returns.
powercycle_release ==
    /\ pc = "powercycle_hold"
    /\ PORTA_OUT' = deassert_powercycle(PORTA_OUT)
    /\ wdt_expirations' = 0
    /\ pc' = "idle"
    /\ UNCHANGED <<wdt_counter, register_pointer, config_reg>>
    /\ UNCHANGED obs

\* The rest of timer_handler once it has entered the else branch.
timer_handler_escalate ==
    \/ reset_assert /\ UNCHANGED irq
    \/ reset_release /\ UNCHANGED irq
    \/ powercycle_assert /\ UNCHANGED irq
    \/ powercycle_release /\ UNCHANGED irq

\* The handlers taken as a whole, each from its entry to its return (for
\* timer_handler, to the end of its first branch).
run_i2c_receive_event(bytes, stop) == i2c_receive_event(bytes, stop) /\ UNCHANGED irq
run_i2c_request_event == i2c_request_event /\ UNCHANGED irq
run_timer_handler_enter(limit, cap, ecap) ==
    timer_handler_enter(limit, cap, ecap) /\ UNCHANGED irq

\* ------------------------------------------------------------ interrupts
\* The interrupt-level view.  timer_handler runs as the service routine of
\* the periodic timer and never enables interrupts itself, so nothing
\* preempts it.  i2c_receive_event is taken to be preemptible by the timer
\* interrupt wherever it has not disabled interrupts itself: the only
\* protection relied on is its own cli() ... sei().  A raised and enabled
\* timer interrupt is taken before the next instruction of anything else.
\* Time advances in slots of DELAY_MSEC; the timer raises its interrupt
\* every TICK_SLOTS slots, each delay(50) spans one slot boundary, and the
\* instructions of one bus handler span at most one.
TICK_SLOTS == WDT_TICK_INTERVAL_MSEC \div DELAY_MSEC

\* Mutant: cli() that leaves interrupts enabled.
cli_noop(i) == i

cli(i) == FALSE

\* Mutant: sei() that leaves interrupts as they are.
sei_noop(i) == i

sei(i) == TRUE

\* delay(50) has waited h slots.
delay_done(h) == h * DELAY_MSEC >= DELAY_MSEC

FwState == [c |-> wdt_counter, e |-> wdt_expirations, rp |-> register_pointer,
            cfg |-> config_reg, out |-> PORTA_OUT]

\* The bus interrupt: i2c_receive_event is entered with bytes in Wire.
irq_receive_enter(bytes) ==
    /\ bus_pc = "idle" /\ pc = "idle" /\ sreg_i /\ ~tick_flag
    /\ bus_pc' = "addr"
    /\ wire' = bytes
    /\ snap' = FwState
    /\ nested' = 0
    /\ bus_elapsed' = FALSE
    /\ UNCHANGED <<fw, obs, sreg_i, tick_flag, slot, held, lost>>

\* The bus handler executes its next instruction: the timer handler is not
\* running on top of it and no enabled timer interrupt is waiting.
BusMayStep == pc = "idle" /\ ~(tick_flag /\ sreg_i)

\* What a return from i2c_receive_event does to the interrupt-level state.
BusReturns ==
    /\ bus_pc' = "idle"
    /\ wire' = <<>>
    /\ snap' = NoSnap
    /\ nested' = 0
    /\ bus_elapsed' = FALSE

\* if(Wire.available()) register_pointer = Wire.read();
\* if(!Wire.available()) return;
irq_receive_addr ==
    /\ bus_pc = "addr" /\ BusMayStep
    /\ register_pointer' = IF Len(wire) > 0 THEN wire[1] ELSE register_pointer
    /\ IF Len(wire) < 2
       THEN BusReturns
       ELSE bus_pc' = "switch" /\ UNCHANGED <<wire, snap, nested, bus_elapsed>>
    /\ UNCHANGED <<wdt_counter, wdt_expirations, config_reg, PORTA_OUT, pc, obs>>
    /\ UNCHANGED <<sreg_i, tick_flag, slot, held, lost>>

\* data = Wire.read(); switch(register_pointer) up to the cli() of the case
\* taken, or through the default case to the return.
irq_receive_switch ==
    /\ bus_pc = "switch" /\ BusMayStep
    /\ IF register_pointer = REG_WDT
       THEN /\ sreg_i' = cli(sreg_i) /\ bus_pc' = "wdt_store"
            /\ UNCHANGED <<wire, snap, nested, bus_elapsed>>
       ELSE IF register_pointer = REG_CONFIG
       THEN /\ sreg_i' = cli(sreg_i) /\ bus_pc' = "cfg_store"
            /\ UNCHANGED <<wire, snap, nested, bus_elapsed>>
       ELSE /\ BusReturns /\ UNCHANGED sreg_i
    /\ UNCHANGED <<fw, obs, tick_flag, slot, held, lost>>

\* wdt_counter = data;
irq_wdt_store ==
    /\ bus_pc = "wdt_store" /\ BusMayStep
    /\ wdt_counter' = ApplyCounter(register_pointer, FirstData(wire), wdt_counter)
    /\ bus_pc' = "wdt_alert"
    /\ gap' = 0
    /\ UNCHANGED <<wdt_expirations, register_pointer, config_reg, PORTA_OUT, pc>>
    /\ UNCHANGED <<lastOp, tx, lastWr, tk, nexp, refreshed, reload, alertEnRun, txn, rx>>
    /\ UNCHANGED <<sreg_i, wire, tick_flag, slot, held, bus_elapsed, lost, snap, nested>>

\* deassert_alert();
irq_wdt_alert ==
    /\ bus_pc = "wdt_alert" /\ BusMayStep
    /\ PORTA_OUT' = ApplyOut(register_pointer, PORTA_OUT)
    /\ bus_pc' = "sei"
    /\ UNCHANGED <<wdt_counter, wdt_expirations, register_pointer, config_reg, pc, obs>>
    /\ UNCHANGED <<sreg_i, wire, tick_flag, slot, held, bus_elapsed, lost, snap, nested>>

\* config_reg = data;
irq_cfg_store ==
    /\ bus_pc = "cfg_store" /\ BusMayStep
    /\ config_reg' = ApplyConfig(register_pointer, FirstData(wire), config_reg)
    /\ bus_pc' = "sei"
    /\ UNCHANGED <<wdt_counter, wdt_expirations, register_pointer, PORTA_OUT, pc, obs>>
    /\ UNCHANGED <<sreg_i, wire, tick_flag, slot, held, bus_elapsed, lost, snap, nested>>

\* sei(); of either case.
irq_sei ==
    /\ bus_pc = "sei" /\ BusMayStep
    /\ sreg_i' = sei(sreg_i)
    /\ bus_pc' = "ret"
    /\ UNCHANGED <<fw, obs, wire, tick_flag, slot, held, bus_elapsed, lost, snap, nested>>

\* break; and the return of i2c_receive_event.
irq_receive_return ==
    /\ bus_pc = "ret" /\ BusMayStep
    /\ BusReturns
    /\ UNCHANGED <<fw, obs, sreg_i, tick_flag, slot, held, lost>>

\* The timer interrupt is taken: timer_handler runs up to the end of its
\* first branch, on top of the bus handler if one is in progress.
irq_timer_enter(limit, cap, ecap) ==
    /\ tick_flag /\ sreg_i
    /\ timer_handler_enter(limit, cap, ecap)
    /\ tick_flag' = FALSE
    /\ held' = 0
    /\ nested' = IF bus_pc # "idle" THEN nested + 1 ELSE nested
    /\ UNCHANGED <<sreg_i, bus_pc, wire, slot, bus_elapsed, lost, snap>>

\* The else branch of timer_handler; each release waits for its delay(50).
irq_timer_escalate ==
    \/ reset_assert /\ held' = 0
          /\ UNCHANGED <<sreg_i, bus_pc, wire, tick_flag, slot, bus_elapsed, lost, snap, nested>>
    \/ delay_done(held) /\ reset_release /\ held' = 0
          /\ UNCHANGED <<sreg_i, bus_pc, wire, tick_flag, slot, bus_elapsed, lost, snap, nested>>
    \/ powercycle_assert /\ held' = 0
          /\ UNCHANGED <<sreg_i, bus_pc, wire, tick_flag, slot, bus_elapsed, lost, snap, nested>>
    \/ delay_done(held) /\ powercycle_release /\ held' = 0
          /\ UNCHANGED <<sreg_i, bus_pc, wire, tick_flag, slot, bus_elapsed, lost, snap, nested>>

InDelay == pc \in {"reset_hold", "powercycle_hold"}

\* One slot boundary goes by: inside a delay(50), while the processor is
\* idle, or, for the boundary that raises the timer interrupt, once inside a
\* bus handler.  Every TICK_SLOTS-th boundary raises the timer interrupt;
\* limit bounds the ticks the host lets go by.
Elapse(limit) ==
    /\ \/ InDelay /\ ~delay_done(held)
       \/ pc = "idle" /\ bus_pc = "idle" /\ ~(tick_flag /\ sreg_i)
       \/ /\ pc = "idle" /\ bus_pc # "idle" /\ ~bus_elapsed /\ ~tick_flag
          /\ slot = TICK_SLOTS - 1
    /\ slot' = (slot + 1) % TICK_SLOTS
    /\ slot' = 0 => gap < limit
    /\ held' = IF InDelay THEN held + 1 ELSE held
    /\ bus_elapsed' = (bus_elapsed \/ (pc = "idle" /\ bus_pc # "idle"))
    /\ tick_flag' = (tick_flag \/ slot' = 0)
    /\ lost' = (lost \/ (slot' = 0 /\ tick_flag))
    /\ UNCHANGED <<fw, obs, sreg_i, bus_pc, wire, snap, nested>>

\* i2c_receive_event run from entry to return on the firmware state st.
SerialReceive(st, bytes) ==
    LET n == Len(bytes)
        rp == IF n > 0 THEN bytes[1] ELSE st.rp
    IN  IF n < 2 THEN [st EXCEPT !.rp = rp]
        ELSE [c |-> ApplyCounter(rp, FirstData(bytes), st.c),
              e |-> ApplyExpirations(rp, st.e),
              rp |-> rp,
              cfg |-> ApplyConfig(rp, FirstData(bytes), st.cfg),
              out |-> ApplyOut(rp, st.out)]

\* timer_handler run from entry to return on the firmware state st.
SerialTick(st) ==
    LET c == Dec8(st.c)
        e == Inc8(st.e)
        rst == HasFlag(st.cfg, CONFIG_ENABLE_RESET)
        pwr == HasFlag(st.cfg, CONFIG_ENABLE_POWERCYCLE)
        out1 == IF rst THEN deassert_reset(assert_reset(st.out)) ELSE st.out
        out2 == IF pwr THEN deassert_powercycle(assert_powercycle(out1)) ELSE out1
    IN  IF c # 0 THEN [st EXCEPT !.c = c]
        ELSE IF e = 1
        THEN [st EXCEPT !.c = c, !.e = e, !.out = FirstStage(st.cfg, st.out)]
        ELSE [st EXCEPT !.c = c, !.e = IF rst \/ pwr THEN 0 ELSE e, !.out = out2]

RECURSIVE SerialTicks(_, _)
SerialTicks(st, n) == IF n = 0 THEN st ELSE SerialTicks(SerialTick(st), n - 1)

\* The states the two handlers leave when a bus write and m ticks run one
\* after the other, in any order.
SerialOutcomes(st, bytes, m) ==
    {SerialTicks(SerialReceive(SerialTicks(st, j), bytes), m - j) : j \in 0 .. m}

\* ------------------------------------------------------------ environments
Addrs == {REG_VERSION, REG_CONFIG, REG_WDT, 3, UINT8 - 1}
\* As configurations: nothing, reset, power-cycle, both, alert and reset, all
\* bits.  As reload values: expiring within MaxGap ticks or not.
DataVals == {0, 1, 2, 3, 5, UINT8 - 1}

\* Every shape of write transaction: empty, address only, address and one,
\* two or three data bytes.
Frames ==
    {<<>>} \cup {<<a>> : a \in Addrs}
           \cup {<<a, d>> : a \in {REG_CONFIG, REG_WDT}, d \in DataVals}
           \cup {<<a, 5>> : a \in Addrs \ {REG_CONFIG, REG_WDT}}
           \cup {<<a, 1, 9>> : a \in Addrs}
           \cup {<<a, 2, 9, 4>> : a \in Addrs}

\* The whole firmware under a host that refreshes at least every MaxGap ticks.
Next ==
    \/ \E bytes \in Frames, stop \in BOOLEAN : run_i2c_receive_event(bytes, stop)
    \/ run_i2c_request_event
    \/ run_timer_handler_enter(MaxGap, MaxGap, MaxExp)
    \/ timer_handler_escalate

Spec == Init /\ [][Next]_vars

\* The host contract of the Linux driver: the only reload value is 255 and
\* no gap between refreshes (or after power-on) reaches 2 x 255 ticks.
HostGapLimit == 2 * DRIVER_RELOAD - 1
ConfigFrames == {<<REG_CONFIG, c>> : c \in 0 .. 7}

NextHost ==
    \/ \E bytes \in ConfigFrames \cup {<<REG_WDT, DRIVER_RELOAD>>} :
          run_i2c_receive_event(bytes, TRUE)
    \/ run_timer_handler_enter(HostGapLimit, HostGapLimit, MaxExp)
    \/ timer_handler_escalate

SpecHost == Init /\ [][NextHost]_vars

\* A host that reloads 3 or nothing at all, with ticks running freely.
NextLong ==
    \/ \E bytes \in ConfigFrames \cup {<<REG_WDT, 3>>} :
          run_i2c_receive_event(bytes, TRUE)
    \/ run_timer_handler_enter(LongCap + 1, LongCap, MaxExp)
    \/ timer_handler_escalate

SpecLong == Init /\ [][NextLong]_vars

\* Every 8-bit value written to CONFIG, read back at any later point.
NextCfg ==
    \/ \E v \in 0 .. UINT8 - 1 : run_i2c_receive_event(<<REG_CONFIG, v>>, TRUE)
    \/ run_i2c_receive_event(<<REG_WDT, 1>>, TRUE)
    \/ run_i2c_request_event
    \/ run_timer_handler_enter(CfgGap, CfgGap, MaxExp)
    \/ timer_handler_escalate

SpecCfg == Init /\ [][NextCfg]_vars

\* A host that sets CONFIG at power-on or not at all, reloads the countdown
\* once, with any 8-bit value, at power-on or right after the first
\* expiration, and is silent from then on.
NextTimeout ==
    \/ /\ ~refreshed /\ gap = 0 /\ lastOp = "none"
       /\ run_i2c_receive_event(<<REG_CONFIG, CONFIG_ENABLE_RESET + CONFIG_ENABLE_POWERCYCLE>>,
                            TRUE)
    \/ /\ ~refreshed /\ gap \in {0, UINT8 - 1}
       /\ \E v \in 0 .. UINT8 - 1 : run_i2c_receive_event(<<REG_WDT, v>>, TRUE)
    \/ run_timer_handler_enter(TimeoutCap, TimeoutCap, MaxExp)
    \/ timer_handler_escalate

SpecTimeout == Init /\ [][NextTimeout]_vars

\* A host that sets CONFIG before the first tick (nothing enabled, the alert
\* alone, or the alert and the reset) and never writes again; ticks run
\* freely and wdt_expirations is followed over its whole range.
NextWrap ==
    \/ /\ gap = 0 /\ lastOp # "tick"
       /\ \E c \in {0, CONFIG_ENABLE_ALERT, CONFIG_ENABLE_ALERT + CONFIG_ENABLE_RESET} :
             run_i2c_receive_event(<<REG_CONFIG, c>>, TRUE)
    \/ run_timer_handler_enter(CfgGap + 1, CfgGap, UINT8)
    \/ timer_handler_escalate

SpecWrap == Init /\ [][NextWrap]_vars

\* A host that may set CONFIG before the first tick and never writes after
\* it.  The timer keeps interrupting every 250 ms and the handler, once
\* entered, runs to its end: both are weakly fair.
NextSilent ==
    \/ /\ gap = 0 /\ lastOp # "tick"
       /\ \E bytes \in ConfigFrames : run_i2c_receive_event(bytes, TRUE)
    \/ run_timer_handler_enter(SilentCap, SilentCap, MaxExp)
    \/ timer_handler_escalate

SpecSilent ==
    /\ Init /\ [][NextSilent]_vars
    /\ WF_vars(run_timer_handler_enter(SilentCap, SilentCap, MaxExp))
    /\ WF_vars(timer_handler_escalate)

\* The interrupt-level view under a host that lets at most CfgGap + 1 ticks
\* go by without a refresh and keeps a pulse enabled.  The processor executes the next
\* instruction of whatever handler is in progress, and time goes on inside
\* a delay(50): both are weakly fair.
IrqFrames ==
    {<<>>, <<REG_VERSION>>, <<3, 5>>, <<REG_WDT, 1>>, <<REG_WDT, 2>>,
     <<REG_CONFIG, CONFIG_ENABLE_RESET + CONFIG_ENABLE_POWERCYCLE>>,
     <<REG_CONFIG, CONFIG_ENABLE_RESET + CONFIG_ENABLE_ALERT>>}

BusSteps ==
    \/ irq_receive_addr
    \/ irq_receive_switch
    \/ irq_wdt_store
    \/ irq_wdt_alert
    \/ irq_cfg_store
    \/ irq_sei
    \/ irq_receive_return

NextIrq ==
    \/ \E bytes \in IrqFrames : irq_receive_enter(bytes)
    \/ BusSteps
    \/ irq_timer_enter(CfgGap + 2, CfgGap + 2, UINT8)
    \/ irq_timer_escalate
    \/ Elapse(CfgGap + 1)

SpecIrq ==
    /\ Init /\ [][NextIrq]_vars
    /\ WF_vars(BusSteps)
    /\ WF_vars(irq_timer_enter(CfgGap + 2, CfgGap + 2, UINT8))
    /\ WF_vars(irq_timer_escalate)
    /\ WF_vars(InDelay /\ Elapse(CfgGap + 1))

\* ------------------------------------------------------------ claims
AlertHigh == PORTA_PIN_ALERT \in PORTA_OUT
FlagReset == HasFlag(config_reg, CONFIG_ENABLE_RESET)
FlagPowercycle == HasFlag(config_reg, CONFIG_ENABLE_POWERCYCLE)
FlagAlert == HasFlag(config_reg, CONFIG_ENABLE_ALERT)
\* The handler that ran last was a refresh write.
JustRefreshed == lastOp = "write" /\ lastWr.kind = "wdt"
\* The handler that ran last was a tick, and it has returned.
TickReturned == lastOp = "tick" /\ pc = "idle"

\* C1: a refresh write of V, in any reachable state, leaves Countdown equal
\* to V, Expiration Count equal to 0 and the alert line deasserted.
C1_RefreshClears ==
    JustRefreshed =>
        /\ wdt_counter = lastWr.data
        /\ wdt_expirations = 0
        /\ ~AlertHigh

\* C2: after a refresh write, the next expiration event with no further
\* write in between fires neither a reset nor a power-cycle pulse.
C2_RefreshRestartsLadder ==
    (refreshed /\ lastWr.kind = "wdt" /\ nexp = 1 /\ lastOp = "tick" /\ tk.expired)
        => (~tk.rst /\ ~tk.pwr)

\* C3: in a run with enable-alert set and no refresh write, the alert line
\* rises exactly once, at the first decrement-to-zero, and is asserted in
\* every later state; only a refresh write ever takes it down again.
C3_AlertLatched ==
    /\ []((~refreshed /\ alertEnRun /\ nexp >= 1) => AlertHigh)
    /\ [][/\ (AlertHigh /\ ~AlertHigh')
              => (lastOp' = "write" /\ lastWr'.kind = "wdt")
          /\ (~refreshed' /\ alertEnRun' /\ ~AlertHigh /\ AlertHigh')
              => (nexp = 0 /\ nexp' = 1 /\ wdt_counter' = 0)]_vars

\* The alert is still up after an escalation pulse, with no refresh so far.
C3_Witness ==
    /\ ~refreshed /\ alertEnRun /\ AlertHigh
    /\ TickReturned /\ tk.pwr /\ nexp = 2

\* C4: reloading 255 with every gap below 2 x 255 ticks, no reset pulse and
\* no power-cycle pulse ever fires.
C4_NoPulseUnderContract == ~tk.rst /\ ~tk.pwr

C6_BothPulsesSameTick ==
    (TickReturned /\ tk.count >= 2 /\ FlagReset /\ FlagPowercycle)
        => (tk.rst /\ tk.pwr /\ wdt_expirations = 0)

C6_Witness ==
    /\ TickReturned /\ tk.count = 2 /\ FlagReset /\ FlagPowercycle
    /\ tk.rst /\ tk.pwr /\ PORTA_OUT \subseteq {PORTA_PIN_ALERT}

\* C7: with no refresh, a first expiration under a clear enable-alert changes
\* no output line, and the second expiration fires the enabled pulses in its
\* own tick whether enable-alert is set or clear.
C7_AlertOffKeepsSchedule ==
    /\ []((~refreshed /\ nexp = 2 /\ TickReturned /\ tk.expired)
            => (tk.count = 2 /\ tk.rst = FlagReset /\ tk.pwr = FlagPowercycle))
    /\ [][(~refreshed /\ nexp = 0 /\ nexp' = 1 /\ ~FlagAlert)
            => (PORTA_OUT' = PORTA_OUT /\ pc' = "idle")]_vars

\* Second expiration with enable-alert never set: the pulse fired, no alert.
C7_Witness ==
    /\ ~refreshed /\ ~alertEnRun /\ ~FlagAlert /\ nexp = 2
    /\ TickReturned /\ tk.expired /\ tk.rst /\ ~AlertHigh

\* C8: while all CONFIG flags are clear no tick changes an output line, and
\* every tick still decrements Countdown by 1.
C8_StoppedWatchdog ==
    [][(~FlagReset /\ ~FlagPowercycle /\ ~FlagAlert /\ lastOp' = "tick")
         => /\ PORTA_OUT' = PORTA_OUT
            /\ pc = "idle" => wdt_counter' = (wdt_counter + 255) % 256]_vars

\* Two expirations have gone by with all flags clear and every line is low.
C8_Witness ==
    /\ ~FlagReset /\ ~FlagPowercycle /\ ~FlagAlert
    /\ TickReturned /\ tk.count = 2 /\ PORTA_OUT = {} /\ wdt_counter = 0

\* C9: a write of V to CONFIG followed by a read request, with no bus write
\* in between and any number of ticks, returns exactly V.
C9_ConfigRoundTrip ==
    (lastOp = "read" /\ lastWr.kind = "cfg") => tx = lastWr.data

C9_Witness ==
    /\ lastOp = "read" /\ lastWr.kind = "cfg" /\ lastWr.data = 170 /\ tx = 170
    /\ wdt_expirations = 1

C11_OnlyFirstDataByte ==
    [][(lastOp' = "write" /\ Len(rx') >= 2) => i2c_receive_fw(SubSeq(rx', 1, 2))]_vars

\* A four-byte write to CONFIG during the alert stage stored its second byte.
C11_Witness ==
    /\ lastOp = "write" /\ Len(rx) = 4 /\ rx[1] = REG_CONFIG
    /\ config_reg = rx[2] /\ rx[3] # rx[2] /\ rx[4] # rx[2]
    /\ wdt_expirations = 1 /\ AlertHigh

\* C12: a write transaction without a data byte, or to VERSION or to an
\* undefined address, changes neither Countdown, Expiration Count, CONFIG
\* nor any output line; it can change the Register Pointer only.
C12_IgnoredWriteFrame ==
    [][(lastOp' = "write" /\ (Len(rx') < 2 \/ rx'[1] \notin {REG_CONFIG, REG_WDT}))
         => /\ UNCHANGED <<wdt_counter, wdt_expirations, config_reg, PORTA_OUT, pc>>
            /\ register_pointer' = IF Len(rx') = 0 THEN register_pointer ELSE rx'[1]]_vars

\* A data byte sent to address 255 during the alert stage moved the pointer.
C12_Witness ==
    /\ lastOp = "write" /\ rx = <<UINT8 - 1, 5>> /\ register_pointer = UINT8 - 1
    /\ AlertHigh /\ wdt_expirations = 1 /\ config_reg # 5 /\ wdt_counter # 5

\* C13: a read request returns 0x10 whenever the Register Pointer selects
\* VERSION and 0 whenever it selects an undefined address.
C13_VersionAndDefaultRead ==
    lastOp = "read" =>
        /\ register_pointer = REG_VERSION => tx = 16
        /\ register_pointer > REG_WDT => tx = 0

\* VERSION read back after CONFIG was rewritten and an expiration went by.
C13_Witness ==
    /\ lastOp = "read" /\ txn = "primed_read" /\ register_pointer = REG_VERSION
    /\ tx = 16 /\ config_reg = 5 /\ wdt_expirations = 1

\* A read of address 255 while Countdown and CONFIG are both nonzero.
C13_WitnessUndefined ==
    /\ lastOp = "read" /\ register_pointer = UINT8 - 1 /\ tx = 0
    /\ wdt_counter # 0 /\ config_reg # 0

\* C15 as stated: whenever no handler is executing, the alert line is
\* asserted only if Expiration Count is 1 and enable-alert is set.
C15_AlertOnlyAtCountOne ==
    (pc = "idle" /\ AlertHigh) => (wdt_expirations = 1 /\ FlagAlert)

\* C15 amended: the alert line is asserted only after an expiration since
\* the last refresh write or power-on; it rises only in a tick that brings
\* Expiration Count to 1 with enable-alert set, and it falls only in a
\* refresh write.
C15_AlertLatchedFromCountOne ==
    /\ [](AlertHigh => nexp >= 1)
    /\ [][(~AlertHigh /\ AlertHigh')
            => /\ lastOp' = "tick" /\ tk'.expired
               /\ wdt_expirations' = 1 /\ FlagAlert]_vars
    /\ [][(AlertHigh /\ ~AlertHigh')
            => /\ lastOp' = "write" /\ Len(rx') >= 2 /\ rx'[1] = REG_WDT]_vars

\* The alert is up although a pulse has cleared Expiration Count and a CONFIG
\* write has cleared enable-alert since.
C15_Witness ==
    /\ pc = "idle" /\ AlertHigh /\ ~FlagAlert /\ wdt_expirations = 0
    /\ nexp = 2 /\ lastOp = "write" /\ lastWr.kind = "cfg"

C17_CountOnlyGrows ==
    [][(lastOp' = "tick" /\ ~FlagReset /\ ~FlagPowercycle)
         => /\ wdt_expirations' >= wdt_expirations
            /\ (pc = "idle" /\ tk'.expired) => wdt_expirations' = wdt_expirations + 1
            /\ nexp >= 1 => PORTA_OUT' = PORTA_OUT]_vars

\* C17 amended: with enable-reset and enable-powercycle clear and no bus
\* write, every expiration adds 1 to Expiration Count modulo 256 (255 is
\* followed by 0), nothing else changes it, and an expiration changes an
\* output line only by asserting the alert when it brings the count to 1.
C17_CountWrapsAt256 ==
    [][(lastOp' = "tick" /\ ~FlagReset /\ ~FlagPowercycle)
         => /\ wdt_expirations' =
                  IF pc = "idle" /\ tk'.expired
                  THEN (IF wdt_expirations = 255 THEN 0 ELSE wdt_expirations + 1)
                  ELSE wdt_expirations
            /\ PORTA_OUT' # PORTA_OUT
                  => /\ pc = "idle" /\ tk'.expired /\ wdt_expirations' = 1 /\ FlagAlert
                     /\ PORTA_OUT' = PORTA_OUT \cup {PORTA_PIN_ALERT}
            /\ nexp >= 1 => PORTA_OUT' = PORTA_OUT]_vars

\* The 256th expiration of a silent run took Expiration Count from 255 to 0.
C17_Witness ==
    /\ ~FlagReset /\ ~FlagPowercycle /\ lastOp = "tick" /\ tk.expired
    /\ tk.count = 0 /\ wdt_expirations = 0 /\ wdt_counter = 0 /\ AlertHigh

\* C19: with enable-reset or enable-powercycle set and no bus write after the
\* first tick, the expirations are on ticks 255, 511, 767, ...; the odd ones
\* are alert-stage events (count 1, no pulse), the even ones fire the enabled
\* pulses and leave Expiration Count at 0; and the 2nd, 4th and 6th
\* expiration, each with its pulse, are eventually reached.
C19_PulseEverySecondExpiration ==
    /\ []((lastOp = "tick" /\ (FlagReset \/ FlagPowercycle)) =>
            LET k == (gap + 1) \div 256
            IN  /\ tk.expired <=> gap % 256 = 255
                /\ (tk.expired /\ k % 2 = 1) =>
                      /\ tk.count = 1 /\ ~tk.rst /\ ~tk.pwr /\ pc = "idle"
                      /\ FlagAlert => AlertHigh
                /\ (tk.expired /\ k % 2 = 0 /\ pc = "idle") =>
                      /\ tk.count = 2 /\ wdt_expirations = 0
                      /\ tk.rst = FlagReset /\ tk.pwr = FlagPowercycle)
    /\ \A k \in 1 .. 3 :
          (gap = 1 /\ (FlagReset \/ FlagPowercycle))
              ~> (TickReturned /\ gap = 512 * k - 1 /\ (tk.rst \/ tk.pwr))

\* The sixth expiration of a silent run with the default CONFIG: the third
\* power-cycle pulse has fired and the alert is still up.
C19_Witness ==
    /\ TickReturned /\ gap = 1535 /\ tk.expired /\ tk.pwr /\ ~tk.rst
    /\ lastWr.kind = "none" /\ wdt_expirations = 0 /\ AlertHigh

ResetHigh == PORTA_PIN_RESET \in PORTA_OUT
PowercycleHigh == PORTA_PIN_POWERCYCLE \in PORTA_OUT

C18_NoLostTick ==
    /\ [](bus_pc \in {"idle", "addr", "switch", "ret"} => sreg_i)
    /\ [](~lost)
    /\ [][wdt_counter' # wdt_counter
            => \/ bus_pc = "wdt_store" /\ bus_pc' = "wdt_alert"
               \/ tick_flag /\ ~tick_flag']_vars
    /\ [][(tick_flag /\ ~tick_flag')
            => /\ wdt_counter' = (wdt_counter + 255) % 256
               /\ lastOp' = "tick"]_vars
    /\ tick_flag ~> ~tick_flag
    /\ (bus_pc # "idle") ~> (bus_pc = "idle")
    /\ (pc # "idle") ~> (pc = "idle")

\* A timer interrupt is waiting while the critical section of a refresh
\* write holds interrupts off.
C18_Witness ==
    /\ tick_flag /\ ~sreg_i /\ bus_pc = "wdt_alert" /\ pc = "idle" /\ ~lost

\* C20: the reset and power-cycle lines are never asserted together; a
\* power-cycle pulse starts only with the reset line low and, with
\* enable-reset set, after the reset pulse of the same tick; both lines are
\* low whenever timer_handler is not executing, and no bus handler executes
\* an instruction while either is high.
C20_PulsesNeverOverlap ==
    /\ [](~(ResetHigh /\ PowercycleHigh))
    /\ [](pc = "idle" => (~ResetHigh /\ ~PowercycleHigh))
    /\ [][(~PowercycleHigh /\ PowercycleHigh')
            => (~ResetHigh /\ ~ResetHigh' /\ (FlagReset => tk.rst))]_vars
    /\ [][bus_pc' # bus_pc
            => (~ResetHigh /\ ~PowercycleHigh /\ ~ResetHigh' /\ ~PowercycleHigh')]_vars

\* With both flags set the power-cycle line is high, the reset pulse of the
\* same tick is over and its line is low again.
C20_Witness ==
    /\ pc = "powercycle_hold" /\ FlagReset /\ FlagPowercycle /\ tk.rst /\ tk.pwr
    /\ PowercycleHigh /\ ~ResetHigh /\ held = 1

====
